---- MODULE Spec2Model ----
(***************************************************************************)
(* Apple2Dreem.py: conversion of sleep-stage intervals into per-night      *)
(* summaries.  Datetimes are integer seconds on one time line (all         *)
(* timestamps carry the same UTC offset); a calendar date is t \div Day    *)
(* and a clock time is t % Day.  Python objects that are shared between    *)
(* lists (SleepEntry) live in the heap sleep_entries and lists hold their  *)
(* indices.                                                                *)
(***************************************************************************)
EXTENDS Integers, Sequences, FiniteSets, TLC

\* ------------------------------------------------------------ bounds
MaxEntries == 3
MaxNight == 3
MaxSpan == 125

\* --------------------------------------------------------- constants
Day == 86400
SlotSeconds == 30
None == -1
NightStartClock == 19 * 3600
NightEndClock == 11 * 3600

At(day, h, m, s) == day * Day + h * 3600 + m * 60 + s

\* Readings of the clock (datetime.now) while a file is parsed.
Nows == {At(2, 6, 35, 0), At(3, 9, 0, 0)}

\* ------------------------------------------------- pure functions
\* dateutil's parse of a date string; an unparseable string yields now().
parse_iso8601(date_string, now) ==
  IF date_string.valid THEN date_string.t ELSE now

\* The table of map_sleep_stage with InBed taken for sleep.
MapSleepStageMutant(stage) ==
  CASE stage = "Core" -> "Light"
    [] stage = "Asleep" -> "Asleep"
    [] stage = "Deep" -> "Deep"
    [] stage = "REM" -> "REM"
    [] stage = "Awake" -> "WAKE"
    [] stage = "InBed" -> "Asleep"
    [] OTHER -> "WAKE"

map_sleep_stage(stage) ==
  CASE stage = "Core" -> "Light"
    [] stage = "Asleep" -> "Asleep"
    [] stage = "Deep" -> "Deep"
    [] stage = "REM" -> "REM"
    [] stage = "Awake" -> "WAKE"
    [] stage = "InBed" -> "WAKE"
    [] OTHER -> "WAKE"

\* The loop condition of create_30s_segments; the variant also runs at end_time.
SegmentLoopGuardMutant(current_time, end_time) == current_time <= end_time
SegmentLoopGuard(current_time, end_time) == current_time < end_time

\* Number of iterations of the while loop: the first n at which the guard
\* fails, the guard having held at every earlier iteration.
SegmentLoopCount(start_time, end_time) ==
  LET span == IF end_time > start_time THEN end_time - start_time ELSE 0
  IN CHOOSE n \in 0..(span + 1) :
       /\ ~SegmentLoopGuard(start_time + SlotSeconds * n, end_time)
       /\ \A m \in 0..(n - 1) : SegmentLoopGuard(start_time + SlotSeconds * m, end_time)

create_30s_segments(start_time, end_time) ==
  [k \in 1..SegmentLoopCount(start_time, end_time) |->
     [Start |-> start_time + SlotSeconds * (k - 1), Stage |-> "WAKE"]]

\* Whether one entry overwrites one segment (line 77); the variant overwrites
\* whatever the segment's stage is.
OverlayHitsMutant(segment, entry) ==
  entry.StartDate <= segment.Start /\ segment.Start <= entry.EndDate
OverlayHits(segment, entry) ==
  /\ entry.StartDate <= segment.Start
  /\ segment.Start <= entry.EndDate
  /\ segment.Stage = "WAKE"

\* One iteration of the outer loop of update_segments_with_sleep_data.
UpdateSegmentsWithEntry(segments, entry) ==
  [k \in DOMAIN segments |->
     IF OverlayHits(segments[k], entry)
     THEN [segments[k] EXCEPT !.Stage = map_sleep_stage(entry.Value)]
     ELSE segments[k]]

RECURSIVE update_segments_with_sleep_data(_, _)
update_segments_with_sleep_data(segments, sleep_data) ==
  IF sleep_data = <<>>
  THEN segments
  ELSE update_segments_with_sleep_data(
         UpdateSegmentsWithEntry(segments, Head(sleep_data)), Tail(sleep_data))

\* "H:MM:SS" as the triple <<H, MM, SS>>.
calculate_duration(start, end) ==
  LET total_seconds == end - start
  IN << total_seconds \div 3600, (total_seconds % 3600) \div 60, total_seconds % 60 >>

parse_duration_string(duration_str) ==
  duration_str[1] * 3600 + duration_str[2] * 60 + duration_str[3]

format_timedelta(td) ==
  << td \div 3600, (td % 3600) \div 60, td % 60 >>

apply_time_shift(date_time, shift_seconds) == date_time + shift_seconds

\* strftime("%Y-%m-%dT%H:%M:%S"): the date and the clock fields.
strftime(t) ==
  << t \div Day, (t % Day) \div 3600, ((t % Day) % 3600) \div 60, (t % Day) % 60 >>

\* strftime("%H-%M") of the output file name.
strftime_hm(t) == << (t % Day) \div 3600, ((t % Day) % 3600) \div 60 >>

\* Lines 105-107: both ends of an entry are shifted.
ShiftEntryMutant(entry, shift_seconds) ==
  [entry EXCEPT !.StartDate = apply_time_shift(entry.StartDate, shift_seconds)]
ShiftEntry(entry, shift_seconds) ==
  [entry EXCEPT !.StartDate = apply_time_shift(entry.StartDate, shift_seconds),
                !.EndDate = apply_time_shift(entry.EndDate, shift_seconds)]

\* sorted(..., key=StartDate): a stable sort, as the permutation of the
\* positions 1..n of `entries`.
InsertByStart(perm, i, entries) ==
  LET p == Cardinality({j \in 1..Len(perm) :
                          entries[perm[j]].StartDate <= entries[i].StartDate})
  IN SubSeq(perm, 1, p) \o <<i>> \o SubSeq(perm, p + 1, Len(perm))

RECURSIVE SortedByStart(_, _)
SortedByStart(entries, n) ==
  IF n = 0 THEN <<>>
  ELSE InsertByStart(SortedByStart(entries, n - 1), n, entries)

MaxEndDate(entries) ==
  CHOOSE t \in {entries[k].EndDate : k \in DOMAIN entries} :
    \A k \in DOMAIN entries : entries[k].EndDate <= t

\* Line 120: the first segment that is not WAKE, else segments[0].
SleepOnsetSegmentMutant(segments) ==
  IF \E k \in DOMAIN segments : segments[k].Stage # "WAKE"
  THEN segments[CHOOSE k \in DOMAIN segments :
                  /\ segments[k].Stage # "WAKE"
                  /\ \A j \in (k + 1)..Len(segments) : segments[j].Stage = "WAKE"]
  ELSE segments[1]
SleepOnsetSegment(segments) ==
  IF \E k \in DOMAIN segments : segments[k].Stage # "WAKE"
  THEN segments[CHOOSE k \in DOMAIN segments :
                  /\ segments[k].Stage # "WAKE"
                  /\ \A j \in 1..(k - 1) : segments[j].Stage = "WAKE"]
  ELSE segments[1]

Stages == {"Asleep", "Light", "Deep", "REM", "WAKE"}

\* Lines 123-132: 30 seconds per segment, by stage.
StageDurationsMutant(segments) ==
  [s \in Stages |->
     IF s = "WAKE" THEN 0
     ELSE SlotSeconds * Cardinality({k \in DOMAIN segments : segments[k].Stage = s})]
StageDurations(segments) ==
  [s \in Stages |->
     SlotSeconds * Cardinality({k \in DOMAIN segments : segments[k].Stage = s})]

\* Lines 136-139.
NumAwakenings(segments) ==
  Cardinality({k \in 1..(Len(segments) - 1) :
                 segments[k].Stage # "WAKE" /\ segments[k + 1].Stage = "WAKE"})

\* Line 141: the stage labels, in order.
Hypnogram(segments) == [k \in DOMAIN segments |-> segments[k].Stage]

\* Lines 143-159: the OutputData row.
OutputRow(start, end, total, onset, durations, waso, awakenings, hypno) ==
  [Type |-> "night",
   StartTime |-> strftime(start),
   StopTime |-> strftime(end),
   SleepDuration |-> total,
   SleepOnsetDuration |-> onset,
   LightSleepDuration |-> format_timedelta(durations["Light"]),
   DeepSleepDuration |-> format_timedelta(durations["Deep"]),
   REMDuration |-> format_timedelta(durations["REM"]),
   WakeAfterSleepOnsetDuration |-> format_timedelta(waso),
   NumberOfAwakenings |-> awakenings,
   PositionChanges |-> 0,
   MeanHeartRate |-> 0,
   MeanRespirationCPM |-> 0,
   NumberOfStimulations |-> 0,
   SleepEfficiency |-> 0,
   Hypnogram |-> hypno]

\* process_health_data as one function of its list argument: raised is
\* the IndexError of sleep_data[0] or segments[0].
process_health_data(entries, shift_seconds) ==
  IF entries = <<>> THEN [raised |-> TRUE]
  ELSE
    LET perm == SortedByStart(entries, Len(entries))
        data == [k \in DOMAIN perm |-> ShiftEntry(entries[perm[k]], shift_seconds)]
        start == data[1].StartDate
        end == MaxEndDate(data)
        segments == update_segments_with_sleep_data(create_30s_segments(start, end), data)
    IN IF segments = <<>> THEN [raised |-> TRUE]
       ELSE
         LET onset == calculate_duration(start, SleepOnsetSegment(segments).Start)
             durations == StageDurations(segments)
         IN [raised |-> FALSE,
             stage_durations |-> durations,
             row |-> OutputRow(start, end, calculate_duration(start, end), onset,
                               durations,
                               durations["WAKE"] - parse_duration_string(onset),
                               NumAwakenings(segments), Hypnogram(segments))]

\* ------------------------------------------------------------- state
VARIABLES
  pc,                     \* position in process_file / process_health_data
  status,                 \* "running", "skipped", "completed" or "raised"
  caller,                 \* who called process_health_data
  from_date, to_date, time_shift_seconds,
  file_kind,              \* what open / json.loads / the structure checks find
  sleep_data_list,        \* metrics[0]['data'] of the input file
  sleep_entries,          \* the SleepEntry objects, in file order
  all_sleep_data,         \* sorted list of entries (indices of sleep_entries)
  idx,                    \* position of the grouping loop
  grouped_sleep_data, current_night_start, current_night_entries,
  gi,                     \* position of the summarizing loop
  outputs,                \* the CSV files written: {[file, row]}
  renamed,                \* the input file carries the "_" prefix
  phd_list,               \* process_health_data's list argument
  phd_arg,                \* the entries of that list as they were at the call
  output_file,
  sleep_data, start_time, end_time, segments, ei,
  total_duration, sleep_onset_duration, stage_durations,
  wake_after_sleep_onset, num_awakenings, hypnogram

runVars == << pc, status, caller >>
argVars == << from_date, to_date, time_shift_seconds, file_kind, sleep_data_list >>
fileVars == << all_sleep_data, idx, grouped_sleep_data, current_night_start,
               current_night_entries, gi, renamed >>
callVars == << phd_list, phd_arg, output_file >>
prepVars == << sleep_data, start_time, end_time >>
statVars == << total_duration, sleep_onset_duration, stage_durations,
               wake_after_sleep_onset, num_awakenings, hypnogram >>
vars == << runVars, argVars, fileVars, callVars, prepVars, statVars,
           sleep_entries, outputs, segments, ei >>

NoDuration == << 0, 0, 0 >>
NoDurations == [s \in Stages |-> 0]

\* The locals of process_health_data before they are assigned.
FreshLocals ==
  /\ sleep_data = <<>> /\ start_time = 0 /\ end_time = 0
  /\ segments = <<>> /\ ei = 0
  /\ total_duration = NoDuration /\ sleep_onset_duration = NoDuration
  /\ stage_durations = NoDurations /\ wake_after_sleep_onset = 0
  /\ num_awakenings = 0 /\ hypnogram = <<>>

DropLocals ==
  /\ sleep_data' = <<>> /\ start_time' = 0 /\ end_time' = 0
  /\ segments' = <<>> /\ ei' = 0
  /\ total_duration' = NoDuration /\ sleep_onset_duration' = NoDuration
  /\ stage_durations' = NoDurations /\ wake_after_sleep_onset' = 0
  /\ num_awakenings' = 0 /\ hypnogram' = <<>>

\* An exception leaves process_health_data and process_file; main catches it.
Raise ==
  /\ pc' = "done" /\ status' = "raised" /\ caller' = caller
  /\ DropLocals
  /\ UNCHANGED << phd_list, phd_arg, output_file >>

\* ------------------------------------------- process_health_data
\* Lines 103-113: sort, shift every entry in place, overall span.
PHD_Prepare ==
  /\ pc = "phd"
  /\ IF phd_list = <<>>
     THEN Raise /\ UNCHANGED sleep_entries
     ELSE
       LET objs == [k \in DOMAIN phd_list |-> sleep_entries[phd_list[k]]]
           perm == SortedByStart(objs, Len(objs))
           sorted == [k \in DOMAIN perm |-> phd_list[perm[k]]]
           heap == [i \in DOMAIN sleep_entries |->
                      IF \E k \in DOMAIN sorted : sorted[k] = i
                      THEN ShiftEntry(sleep_entries[i], time_shift_seconds)
                      ELSE sleep_entries[i]]
       IN /\ sleep_data' = sorted
          /\ sleep_entries' = heap
          /\ start_time' = heap[sorted[1]].StartDate
          /\ end_time' = MaxEndDate([k \in DOMAIN sorted |-> heap[sorted[k]]])
          /\ pc' = "build"
          /\ UNCHANGED << status, caller, callVars, segments, ei, statVars >>
  /\ UNCHANGED << argVars, fileVars, outputs >>

\* Line 115.
PHD_Build ==
  /\ pc = "build"
  /\ segments' = create_30s_segments(start_time, end_time)
  /\ ei' = 1
  /\ pc' = "overlay"
  /\ UNCHANGED << status, caller, argVars, fileVars, callVars, prepVars, statVars,
                  sleep_entries, outputs >>

\* Lines 71-78: one entry of update_segments_with_sleep_data's loop.
PHD_Overlay ==
  /\ pc = "overlay"
  /\ ei <= Len(sleep_data)
  /\ segments' = UpdateSegmentsWithEntry(segments, sleep_entries[sleep_data[ei]])
  /\ ei' = ei + 1
  /\ UNCHANGED << runVars, argVars, fileVars, callVars, prepVars, statVars,
                  sleep_entries, outputs >>

\* Lines 118-121: segments[0] is evaluated whatever the stages are.
PHD_Onset ==
  /\ pc = "overlay"
  /\ ei > Len(sleep_data)
  /\ IF segments = <<>>
     THEN Raise
     ELSE /\ total_duration' = calculate_duration(start_time, end_time)
          /\ sleep_onset_duration' =
               calculate_duration(start_time, SleepOnsetSegment(segments).Start)
          /\ pc' = "stats"
          /\ UNCHANGED << status, caller, callVars, prepVars, segments, ei,
                          stage_durations, wake_after_sleep_onset, num_awakenings,
                          hypnogram >>
  /\ UNCHANGED << argVars, fileVars, sleep_entries, outputs >>

\* Lines 123-141.
PHD_Stats ==
  /\ pc = "stats"
  /\ stage_durations' = StageDurations(segments)
  /\ wake_after_sleep_onset' =
       StageDurations(segments)["WAKE"] - parse_duration_string(sleep_onset_duration)
  /\ num_awakenings' = NumAwakenings(segments)
  /\ hypnogram' = Hypnogram(segments)
  /\ pc' = "write"
  /\ UNCHANGED << status, caller, argVars, fileVars, callVars, prepVars,
                  total_duration, sleep_onset_duration,
                  sleep_entries, outputs, segments, ei >>

\* open(output_file, 'w'): the file is created or replaced.
WriteFile(files, name, row) ==
  {f \in files : f.file # name} \cup {[file |-> name, row |-> row]}

\* Lines 143-167, and the return to the caller.
PHD_Write ==
  /\ pc = "write"
  /\ outputs' = WriteFile(outputs, output_file,
                  OutputRow(start_time, end_time, total_duration, sleep_onset_duration,
                            stage_durations, wake_after_sleep_onset, num_awakenings,
                            hypnogram))
  /\ IF caller = "process_file"
     THEN /\ pc' = "summarize" /\ gi' = gi + 1 /\ status' = status /\ DropLocals
     ELSE /\ pc' = "done" /\ gi' = gi /\ status' = "completed"
          /\ UNCHANGED << prepVars, statVars, segments, ei >>
  /\ UNCHANGED << caller, argVars, all_sleep_data, idx, grouped_sleep_data,
                  current_night_start, current_night_entries, renamed,
                  callVars, sleep_entries >>

NextNight ==
  \/ PHD_Prepare \/ PHD_Build \/ PHD_Overlay \/ PHD_Onset \/ PHD_Stats \/ PHD_Write

\* ------------------------------ inputs of the summarizer's own run
Entry(source, qty, start, value, end) ==
  [Source |-> source, Qty |-> qty, StartDate |-> start, Value |-> value, EndDate |-> end]

NightBase == At(1, 23, 0, 0)

NightPool ==
  { Entry("Watch", "finite", NightBase, "InBed", NightBase + 90),
    Entry("Watch", "finite", NightBase + 30, "Core", NightBase + 60),
    Entry("Watch", "finite", NightBase + 30, "REM", NightBase + 75),
    Entry("Watch", "finite", NightBase + 45, "Deep", NightBase + 100),
    Entry("Watch", "finite", NightBase + 120, "REM", NightBase + 120),
    Entry("Watch", "finite", NightBase + 150, "Awake", NightBase + 210),
    Entry("Watch", "finite", NightBase + 60, "Asleep", NightBase + 185) }

\* The night of the scenario: 19:00-19:30 InBed, 19:30-23:00 Core,
\* 23:00-23:05 Deep, 07:00-07:30 Awake.
ScenarioNight ==
  << Entry("Watch", "finite", At(1, 19, 0, 0), "InBed", At(1, 19, 30, 0)),
     Entry("Watch", "finite", At(1, 19, 30, 0), "Core", At(1, 23, 0, 0)),
     Entry("Watch", "finite", At(1, 23, 0, 0), "Deep", At(1, 23, 5, 0)),
     Entry("Watch", "finite", At(2, 7, 0, 0), "Awake", At(2, 7, 30, 0)) >>

Shifts == {0, 3600, 0 - 45}

\* The lists of 1..MaxNight distinct entries of the pool.
NightLists ==
  UNION { { s \in [1..n -> NightPool] : \A i, j \in 1..n : i # j => s[i] # s[j] }
          : n \in 1..MaxNight }

NoFile == << 0, << 0, 0 >>, << 0, 0 >> >>

InitNight ==
  /\ pc = "phd" /\ status = "running" /\ caller = "direct"
  /\ from_date = 0 /\ to_date = 0
  /\ file_kind = "ok" /\ sleep_data_list = <<>>
  /\ time_shift_seconds \in Shifts
  /\ sleep_entries \in NightLists \cup {ScenarioNight}
  /\ phd_list = [k \in DOMAIN sleep_entries |-> k]
  /\ phd_arg = sleep_entries
  /\ output_file = NoFile
  /\ all_sleep_data = <<>> /\ idx = 0 /\ grouped_sleep_data = <<>>
  /\ current_night_start = None /\ current_night_entries = <<>>
  /\ gi = 0 /\ outputs = {} /\ renamed = FALSE
  /\ FreshLocals

SpecNight == InitNight /\ [][NextNight]_vars

\* ------------------------------- inputs of create_30s_segments alone
BuildStarts == {NightBase, NightBase + 7}

InitBuild ==
  /\ pc = "build" /\ status = "running" /\ caller = "direct"
  /\ from_date = 0 /\ to_date = 0 /\ time_shift_seconds = 0
  /\ file_kind = "ok" /\ sleep_data_list = <<>>
  /\ sleep_entries = <<>> /\ phd_list = <<>> /\ phd_arg = <<>>
  /\ output_file = NoFile
  /\ all_sleep_data = <<>> /\ idx = 0 /\ grouped_sleep_data = <<>>
  /\ current_night_start = None /\ current_night_entries = <<>>
  /\ gi = 0 /\ outputs = {} /\ renamed = FALSE
  /\ sleep_data = <<>>
  /\ start_time \in BuildStarts
  /\ end_time \in start_time..(start_time + MaxSpan)
  /\ segments = <<>> /\ ei = 0
  /\ total_duration = NoDuration /\ sleep_onset_duration = NoDuration
  /\ stage_durations = NoDurations /\ wake_after_sleep_onset = 0
  /\ num_awakenings = 0 /\ hypnogram = <<>>

SpecBuild == InitBuild /\ [][PHD_Build]_vars


\* ------------------------------------------------------ process_file
\* A date string of the JSON: parseable (with its value) or not.
Str(t) == [valid |-> TRUE, t |-> t]
BadStr == [valid |-> FALSE, t |-> 0]

Raw(source, qty, startDate, value, endDate) ==
  [source |-> source, qty |-> qty, startDate |-> startDate, value |-> value,
   endDate |-> endDate]

\* Lines 184: isinstance(qty, (int, float)) and neither nan nor inf.
QtyOk(qty) == qty = "finite"

\* Lines 175-190: the checks on one entry. A datetime is always truthy, so the
\* test of StartDate and EndDate never fails.
EntryValidMutant(entry) == entry.Value # "" /\ QtyOk(entry.Qty)
EntryValid(entry) ==
  /\ entry.Value # ""
  /\ QtyOk(entry.Qty)
  /\ entry.Source # ""

validate_sleep_data(entries) ==
  IF entries = <<>> THEN FALSE
  ELSE \A k \in DOMAIN entries : EntryValid(entries[k])

\* Lines 278-281.
NightDateMutant(start_dt) ==
  IF start_dt % Day > NightStartClock THEN start_dt \div Day ELSE start_dt \div Day - 1
NightDate(start_dt) ==
  IF start_dt % Day >= NightStartClock THEN start_dt \div Day ELSE start_dt \div Day - 1

\* Lines 284-285.
NightStartDt(night_date) == night_date * Day + NightStartClock
NightEndDt(night_date) == (night_date + 1) * Day + NightEndClock

\* Lines 288-289.
InNightAndRange(entry, from, to) ==
  /\ entry.StartDate >= NightStartDt(NightDate(entry.StartDate))
  /\ entry.EndDate <= NightEndDt(NightDate(entry.StartDate))
  /\ entry.StartDate >= from
  /\ entry.EndDate <= to

\* Lines 291-292 and 297-298: a finished group is emitted if it has entries.
EmitGroupMutant(groups, night_date, entries) ==
  Append(groups, [night |-> night_date, entries |-> entries])
EmitGroup(groups, night_date, entries) ==
  IF entries # <<>>
  THEN Append(groups, [night |-> night_date, entries |-> entries])
  ELSE groups

\* An early return of process_file.
Skip ==
  /\ pc' = "done" /\ status' = "skipped"

\* Lines 225-230.
ReadFile ==
  /\ pc = "open"
  /\ IF file_kind = "unreadable" THEN Skip ELSE pc' = "loads" /\ status' = status
  /\ UNCHANGED << caller, argVars, fileVars, callVars, prepVars, statVars,
                  sleep_entries, outputs, segments, ei >>

\* Lines 232-236.
LoadJson ==
  /\ pc = "loads"
  /\ IF file_kind = "invalid_json" THEN Skip ELSE pc' = "structure" /\ status' = status
  /\ UNCHANGED << caller, argVars, fileVars, callVars, prepVars, statVars,
                  sleep_entries, outputs, segments, ei >>

\* Lines 238-240.
CheckStructure ==
  /\ pc = "structure"
  /\ IF file_kind = "no_structure" THEN Skip ELSE pc' = "metrics" /\ status' = status
  /\ UNCHANGED << caller, argVars, fileVars, callVars, prepVars, statVars,
                  sleep_entries, outputs, segments, ei >>

\* Lines 242-247.
CheckMetrics ==
  /\ pc = "metrics"
  /\ IF file_kind = "no_metrics" THEN Skip ELSE pc' = "parse" /\ status' = status
  /\ UNCHANGED << caller, argVars, fileVars, callVars, prepVars, statVars,
                  sleep_entries, outputs, segments, ei >>

\* Lines 250-258: one entry of the JSON becomes a SleepEntry; each unparseable
\* date is the clock's reading at that moment.
ParseEntry ==
  /\ pc = "parse"
  /\ Len(sleep_entries) < Len(sleep_data_list)
  /\ \E now1, now2 \in Nows :
       /\ now1 <= now2
       /\ LET raw == sleep_data_list[Len(sleep_entries) + 1]
          IN sleep_entries' =
               Append(sleep_entries,
                      Entry(raw.source, raw.qty, parse_iso8601(raw.startDate, now1),
                            raw.value, parse_iso8601(raw.endDate, now2)))
  /\ UNCHANGED << runVars, argVars, fileVars, callVars, prepVars, statVars,
                  outputs, segments, ei >>

\* Lines 260-271.
ValidateAndSort ==
  /\ pc = "parse"
  /\ Len(sleep_entries) = Len(sleep_data_list)
  /\ IF ~validate_sleep_data(sleep_entries)
     THEN Skip /\ UNCHANGED << all_sleep_data, idx >>
     ELSE /\ all_sleep_data' = SortedByStart(sleep_entries, Len(sleep_entries))
          /\ idx' = 1
          /\ pc' = "group" /\ status' = status
  /\ UNCHANGED << caller, argVars, grouped_sleep_data, current_night_start,
                  current_night_entries, gi, renamed, callVars, prepVars, statVars,
                  sleep_entries, outputs, segments, ei >>

\* Lines 273-295: one entry of the grouping loop.
GroupEntry ==
  /\ pc = "group"
  /\ idx <= Len(all_sleep_data)
  /\ LET entry == sleep_entries[all_sleep_data[idx]]
         night_date == NightDate(entry.StartDate)
     IN IF InNightAndRange(entry, from_date, to_date)
        THEN IF current_night_start # night_date
             THEN /\ grouped_sleep_data' =
                       EmitGroup(grouped_sleep_data, current_night_start,
                                 current_night_entries)
                  /\ current_night_start' = night_date
                  /\ current_night_entries' = << all_sleep_data[idx] >>
             ELSE /\ current_night_entries' =
                       Append(current_night_entries, all_sleep_data[idx])
                  /\ UNCHANGED << grouped_sleep_data, current_night_start >>
        ELSE UNCHANGED << grouped_sleep_data, current_night_start,
                          current_night_entries >>
  /\ idx' = idx + 1
  /\ UNCHANGED << runVars, argVars, all_sleep_data, gi, renamed, callVars, prepVars,
                  statVars, sleep_entries, outputs, segments, ei >>

\* Lines 297-298.
GroupFlush ==
  /\ pc = "group"
  /\ idx > Len(all_sleep_data)
  /\ grouped_sleep_data' =
       EmitGroup(grouped_sleep_data, current_night_start, current_night_entries)
  /\ gi' = 1
  /\ pc' = "summarize"
  /\ UNCHANGED << status, caller, argVars, all_sleep_data, idx, current_night_start,
                  current_night_entries, renamed, callVars, prepVars, statVars,
                  sleep_entries, outputs, segments, ei >>

MinStartDate(entries) ==
  CHOOSE t \in {entries[k].StartDate : k \in DOMAIN entries} :
    \A k \in DOMAIN entries : t <= entries[k].StartDate

\* Lines 300-306: the call of process_health_data for one night.
SummarizeNight ==
  /\ pc = "summarize"
  /\ gi <= Len(grouped_sleep_data)
  /\ LET group == grouped_sleep_data[gi]
         objs == [k \in DOMAIN group.entries |-> sleep_entries[group.entries[k]]]
     IN /\ output_file' = << group.night, strftime_hm(MinStartDate(objs)),
                             strftime_hm(MaxEndDate(objs)) >>
        /\ phd_list' = group.entries
        /\ phd_arg' = objs
  /\ pc' = "phd"
  /\ UNCHANGED << status, caller, argVars, fileVars, prepVars, statVars,
                  sleep_entries, outputs, segments, ei >>

\* Lines 309-314: the rename, whose failure is only reported.
RenameFile ==
  /\ pc = "summarize"
  /\ gi > Len(grouped_sleep_data)
  /\ \E ok \in BOOLEAN : renamed' = ok
  /\ pc' = "done" /\ status' = "completed"
  /\ UNCHANGED << caller, argVars, all_sleep_data, idx, grouped_sleep_data,
                  current_night_start, current_night_entries, gi, callVars,
                  prepVars, statVars, sleep_entries, outputs, segments, ei >>

Next ==
  \/ ReadFile \/ LoadJson \/ CheckStructure \/ CheckMetrics
  \/ ParseEntry \/ ValidateAndSort \/ GroupEntry \/ GroupFlush
  \/ SummarizeNight \/ RenameFile
  \/ PHD_Prepare \/ PHD_Build \/ PHD_Overlay \/ PHD_Onset \/ PHD_Stats \/ PHD_Write

\* ------------------------------------------- inputs of process_file
FilePool ==
  { Raw("Watch", "finite", Str(At(1, 23, 0, 0)), "Core", Str(At(1, 23, 30, 0))),
    Raw("Watch", "finite", Str(At(2, 6, 0, 0)), "REM", Str(At(2, 6, 30, 0))),
    Raw("Watch", "finite", Str(At(2, 10, 30, 0)), "Awake", Str(At(2, 11, 0, 0))),
    Raw("Watch", "finite", Str(At(2, 10, 45, 0)), "Deep", Str(At(2, 11, 15, 0))),
    Raw("Watch", "finite", Str(At(2, 19, 0, 0)), "InBed", Str(At(2, 19, 0, 45))),
    Raw("Watch", "finite", Str(At(2, 23, 10, 0)), "Deep", Str(At(2, 23, 10, 0))),
    Raw("", "finite", Str(At(1, 23, 5, 0)), "Core", Str(At(1, 23, 20, 0))),
    Raw("Watch", "nan", Str(At(1, 23, 5, 0)), "", Str(At(1, 23, 20, 0))),
    Raw("Watch", "finite", BadStr, "Core", Str(At(2, 6, 40, 0))) }

\* The files' data arrays: up to MaxEntries distinct entries of the pool.
FileLists ==
  UNION { { s \in [1..n -> FilePool] : \A i, j \in 1..n : i # j => s[i] # s[j] }
          : n \in 0..MaxEntries }

FileKinds == {"unreadable", "invalid_json", "no_structure", "no_metrics", "ok"}

\* The --from / --to ranges, and the --shift values.
Ranges ==
  { [from |-> At(1, 19, 0, 0), to |-> At(3, 11, 0, 0)],
    [from |-> At(1, 23, 15, 0), to |-> At(2, 11, 0, 0)] }
FileShifts == {0, 3600}

Init ==
  /\ pc = "open" /\ status = "running" /\ caller = "process_file"
  /\ \E r \in Ranges : from_date = r.from /\ to_date = r.to
  /\ time_shift_seconds \in FileShifts
  /\ file_kind \in FileKinds
  /\ sleep_data_list \in (IF file_kind = "ok" THEN FileLists ELSE {<<>>})
  /\ sleep_entries = <<>>
  /\ phd_list = <<>> /\ phd_arg = <<>> /\ output_file = NoFile
  /\ all_sleep_data = <<>> /\ idx = 0 /\ grouped_sleep_data = <<>>
  /\ current_night_start = None /\ current_night_entries = <<>>
  /\ gi = 0 /\ outputs = {} /\ renamed = FALSE
  /\ FreshLocals

Spec == Init /\ [][Next]_vars

\* ============================================================ claims
CeilSlots(span) == (span + SlotSeconds - 1) \div SlotSeconds
FloorSlots(span) == span \div SlotSeconds

\* The entry that process_health_data's sorted list holds at position i.
SortedEntry(i) == sleep_entries[sleep_data[i]]

Covers(i, k) ==
  SortedEntry(i).StartDate <= segments[k].Start /\ segments[k].Start <= SortedEntry(i).EndDate

OverlayDone == pc \in {"stats", "write"} \/ (pc = "done" /\ status = "completed")

SortedAscending ==
  \A i, j \in DOMAIN sleep_data :
    i < j => SortedEntry(i).StartDate <= SortedEntry(j).StartDate

\* A segment that has a stage other than WAKE keeps it in every step of the overlay.
NoDowngrade ==
  (pc = "overlay" /\ pc' = "overlay") =>
    \A k \in DOMAIN segments :
      segments[k].Stage # "WAKE" => segments'[k].Stage = segments[k].Stage

\* After the overlay each segment has the stage of the first entry, in ascending
\* start order, that covers it and maps to a stage other than WAKE; WAKE if none.
FirstSleepStageWins ==
  OverlayDone =>
    /\ SortedAscending
    /\ \A k \in DOMAIN segments :
         LET cov == {i \in DOMAIN sleep_data :
                       Covers(i, k) /\ map_sleep_stage(SortedEntry(i).Value) # "WAKE"}
         IN IF cov = {}
            THEN segments[k].Stage = "WAKE"
            ELSE segments[k].Stage =
                   map_sleep_stage(SortedEntry(CHOOSE i \in cov : \A j \in cov : i <= j).Value)

\* C3 (amended): processed in ascending start order, a segment with a stage other
\* than WAKE is never changed by a later interval, and each segment ends with the
\* canonical stage of the earliest-starting covering interval whose canonical stage
\* is not Wake (ties: the earlier one of the list); a segment covered by no such
\* interval stays Wake.
C3_FirstNonWakeWriterWins == [][NoDowngrade]_vars /\ []FirstSleepStageWins

\* C3 as claimed: each covered segment ends with the canonical stage of an
\* earliest-starting interval that covers it; uncovered segments stay Wake.
C3_EarliestCoveringWins ==
  OverlayDone =>
    \A k \in DOMAIN segments :
      LET cov == {i \in DOMAIN sleep_data : Covers(i, k)}
      IN IF cov = {}
         THEN segments[k].Stage = "WAKE"
         ELSE \E i \in cov :
                /\ \A j \in cov : SortedEntry(i).StartDate <= SortedEntry(j).StartDate
                /\ segments[k].Stage = map_sleep_stage(SortedEntry(i).Value)

\* Two intervals with different sleep stages cover one segment, and the overlay is done.
C3_Witness ==
  /\ OverlayDone
  /\ \E k \in DOMAIN segments : \E i, j \in DOMAIN sleep_data :
       /\ i < j /\ Covers(i, k) /\ Covers(j, k)
       /\ map_sleep_stage(SortedEntry(i).Value) # "WAKE"
       /\ map_sleep_stage(SortedEntry(j).Value) # "WAKE"
       /\ map_sleep_stage(SortedEntry(i).Value) # map_sleep_stage(SortedEntry(j).Value)
       /\ segments[k].Stage = map_sleep_stage(SortedEntry(i).Value)

Built == pc = "overlay" /\ ei = 1

SlotsWellFormed ==
  \A k \in DOMAIN segments :
    /\ segments[k].Start = start_time + SlotSeconds * (k - 1)
    /\ segments[k].Stage = "WAKE"

\* C4 (amended): for start <= end, create_30s_segments returns exactly
\* ceil((end - start) / 30 s) slots (a trailing partial period gets a slot of its
\* own); slot k starts at start + 30*k seconds and every slot is Wake.
C4_CeilSlotCount ==
  (Built /\ start_time <= end_time) =>
    /\ Len(segments) = CeilSlots(end_time - start_time)
    /\ SlotsWellFormed

\* C4 as claimed: floor((end - start) / 30 s) slots.
C4_FloorSlotCount ==
  (Built /\ start_time <= end_time) =>
    /\ Len(segments) = FloorSlots(end_time - start_time)
    /\ SlotsWellFormed

\* A span that is no multiple of 30 seconds has been built.
C4_Witness ==
  /\ Built
  /\ (end_time - start_time) % SlotSeconds # 0
  /\ Len(segments) >= 2

\* The span of the list process_health_data was called with: latest end minus
\* earliest start.
ArgSpan ==
  LET ends == {phd_arg[k].EndDate : k \in DOMAIN phd_arg}
      starts == {phd_arg[k].StartDate : k \in DOMAIN phd_arg}
  IN (CHOOSE e \in ends : \A x \in ends : x <= e)
       - (CHOOSE b \in starts : \A x \in starts : b <= x)

SumOfStageDurations ==
  stage_durations["Asleep"] + stage_durations["Light"] + stage_durations["Deep"]
    + stage_durations["REM"] + stage_durations["WAKE"]

\* C5 (amended): 30 seconds times the number of slots is the night's span rounded
\* UP to a multiple of 30 seconds, and the five per-stage durations, once they are
\* computed, sum to it.
C5_SumIsSpanRoundedUp ==
  /\ (pc \in {"overlay", "stats", "write"} /\ ArgSpan >= 0) =>
       SlotSeconds * Len(segments) = SlotSeconds * CeilSlots(ArgSpan)
  /\ pc = "write" =>
       /\ SumOfStageDurations = SlotSeconds * Len(segments)
       /\ SumOfStageDurations = SlotSeconds * CeilSlots(ArgSpan)

\* C5 as claimed: the sum is the span rounded down to a multiple of 30 seconds.
C5_SumIsSpanRoundedDown ==
  pc = "write" =>
    /\ SumOfStageDurations = SlotSeconds * Len(segments)
    /\ SumOfStageDurations = SlotSeconds * FloorSlots(ArgSpan)

\* A night with several stages whose span is no multiple of 30 seconds.
C5_Witness ==
  /\ pc = "write"
  /\ ArgSpan % SlotSeconds # 0
  /\ stage_durations["WAKE"] > 0
  /\ stage_durations["Light"] > 0
  /\ stage_durations["Deep"] > 0

FromFields(f) == f[1] * Day + f[2] * 3600 + f[3] * 60 + f[4]

\* C6: a run with shift s writes start and stop times s seconds later than the
\* run of the same list with shift 0, and every duration, the awakening count
\* and the hypnogram are those of the unshifted run (both fail alike).
C6_ShiftInvariance ==
  (pc = "done" /\ caller = "direct") =>
    LET base == process_health_data(phd_arg, 0)
    IN IF status = "raised"
       THEN base.raised /\ outputs = {}
       ELSE /\ ~base.raised
            /\ stage_durations = base.stage_durations
            /\ \A f \in outputs :
                 /\ FromFields(f.row.StartTime)
                      = FromFields(base.row.StartTime) + time_shift_seconds
                 /\ FromFields(f.row.StopTime)
                      = FromFields(base.row.StopTime) + time_shift_seconds
                 /\ [f.row EXCEPT !.StartTime = 0, !.StopTime = 0]
                      = [base.row EXCEPT !.StartTime = 0, !.StopTime = 0]
            /\ Cardinality(outputs) = 1

\* A summary of several entries written under a shift of one hour.
C6_Witness ==
  /\ pc = "done" /\ caller = "direct" /\ status = "completed"
  /\ time_shift_seconds = 3600
  /\ Len(phd_arg) >= 2
  /\ \E f \in outputs : f.row.NumberOfAwakenings >= 1

IsScenario == phd_arg = ScenarioNight /\ time_shift_seconds = 0 /\ pc = "write"

\* C7 (amended): the scenario's hypnogram starts with exactly 60 Wake slots
\* (19:00:00-19:29:30), then 421 Light slots, then 10 Deep slots, then Wake to the
\* end, and the sleep-onset duration is 0:30:00.
C7_ScenarioSixtyWakeSlots ==
  IsScenario =>
    /\ hypnogram = [k \in 1..1500 |->
                      IF k <= 60 THEN "WAKE"
                      ELSE IF k <= 481 THEN "Light"
                      ELSE IF k <= 491 THEN "Deep"
                      ELSE "WAKE"]
    /\ sleep_onset_duration = << 0, 30, 0 >>

\* C7 as claimed: exactly one Wake slot, then Light, then Deep, then Wake to the
\* end, and a sleep-onset duration of 0:00:30.
C7_ScenarioOneWakeSlot ==
  IsScenario =>
    LET changes == {k \in 1..(Len(hypnogram) - 1) : hypnogram[k] # hypnogram[k + 1]}
    IN /\ Cardinality(changes) = 3
       /\ 1 \in changes /\ hypnogram[1] = "WAKE" /\ hypnogram[2] = "Light"
       /\ \E a \in changes : hypnogram[a] = "Light" /\ hypnogram[a + 1] = "Deep"
       /\ \E b \in changes : hypnogram[b] = "Deep" /\ hypnogram[b + 1] = "WAKE"
       /\ sleep_onset_duration = << 0, 0, 30 >>

\* The scenario has been summarized.
C7_Witness == IsScenario /\ num_awakenings = 1 /\ Len(hypnogram) = 1500

\* C9: the sleep-onset duration never exceeds the Wake duration, and
\* wake-after-sleep-onset is 30 seconds times the number of Wake slots after the
\* first slot that is not Wake (times the number of all slots when all are Wake).
C9_WasoNonNegative ==
  pc = "write" =>
    LET sleep == {k \in DOMAIN segments : segments[k].Stage # "WAKE"}
        first == IF sleep = {} THEN 0 ELSE CHOOSE k \in sleep : \A j \in sleep : k <= j
    IN /\ parse_duration_string(sleep_onset_duration) <= stage_durations["WAKE"]
       /\ wake_after_sleep_onset >= 0
       /\ wake_after_sleep_onset =
            SlotSeconds * Cardinality({k \in DOMAIN segments :
                                         k > first /\ segments[k].Stage = "WAKE"})

\* Wake slots before and after the first sleep slot.
C9_Witness ==
  /\ pc = "write"
  /\ parse_duration_string(sleep_onset_duration) > 0
  /\ wake_after_sleep_onset > 0
  /\ num_awakenings >= 1

\* ------------------------------------------------ claims on process_file
\* The grouping pass is over and no night has been summarized yet.
Grouped == pc = "summarize" /\ gi = 1

\* Entry i is held by a group of night n.
InGroupOf(i, n) ==
  \E g \in DOMAIN grouped_sleep_data :
    /\ grouped_sleep_data[g].night = n
    /\ \E k \in DOMAIN grouped_sleep_data[g].entries : grouped_sleep_data[g].entries[k] = i

\* The number of places entry i has in the groups.
Places(i) ==
  Cardinality({ << g, k >> \in (DOMAIN grouped_sleep_data) \X (1..Len(sleep_entries)) :
                  /\ k \in DOMAIN grouped_sleep_data[g].entries
                  /\ grouped_sleep_data[g].entries[k] = i })

\* The night date of a start: its date from 19:00 on, the date before otherwise.
NightOf(t) == IF t % Day >= 19 * 3600 THEN t \div Day ELSE t \div Day - 1

InRange(e) == from_date <= e.StartDate /\ e.EndDate <= to_date

\* C1 (amended): an interval is in the group of its night date N if and only if
\* its end is at or before N+1 11:00 (11:00 included; its start is at or after
\* N 19:00 by the choice of N) and fromDate <= start and end <= toDate; every
\* other interval is in no group, and none is in a group of another night.
C1_WindowClosedAtEleven ==
  Grouped =>
    \A i \in DOMAIN sleep_entries :
      LET e == sleep_entries[i]
          n == NightOf(e.StartDate)
          kept == e.EndDate <= (n + 1) * Day + 11 * 3600 /\ InRange(e)
      IN /\ InGroupOf(i, n) <=> kept
         /\ Places(i) = (IF kept THEN 1 ELSE 0)
         /\ e.StartDate >= n * Day + 19 * 3600

\* C1 as claimed, for the intervals with start <= end: in the group of N if and
\* only if start and end lie in [N 19:00, N+1 11:00) and in [fromDate, toDate].
C1_WindowOpenAtEleven ==
  Grouped =>
    \A i \in DOMAIN sleep_entries :
      LET e == sleep_entries[i]
          n == NightOf(e.StartDate)
          lo == n * Day + 19 * 3600
          hi == (n + 1) * Day + 11 * 3600
          kept == /\ lo <= e.StartDate /\ e.StartDate < hi
                  /\ lo <= e.EndDate /\ e.EndDate < hi
                  /\ InRange(e)
      IN e.StartDate <= e.EndDate =>
           /\ InGroupOf(i, n) <=> kept
           /\ Places(i) = (IF kept THEN 1 ELSE 0)

\* 23:00-23:30 of day 1 and 06:00-06:30 of day 2 are both in the group of night 1,
\* and another interval of the file is in no group.
C1_Witness ==
  /\ Grouped
  /\ \E i, j, d \in DOMAIN sleep_entries :
       /\ sleep_entries[i].StartDate = At(1, 23, 0, 0)
       /\ sleep_entries[i].EndDate = At(1, 23, 30, 0)
       /\ sleep_entries[j].StartDate = At(2, 6, 0, 0)
       /\ sleep_entries[j].EndDate = At(2, 6, 30, 0)
       /\ InGroupOf(i, 1) /\ InGroupOf(j, 1)
       /\ Places(d) = 0

\* C2: every emitted group holds at least one interval, process_health_data is
\* never called with an empty list, and each group's night has an interval that
\* passed the window and range filter.
C2_NoEmptyGroup ==
  /\ \A g \in DOMAIN grouped_sleep_data : grouped_sleep_data[g].entries # <<>>
  /\ pc = "phd" => phd_list # <<>>
  /\ Grouped =>
       \A g \in DOMAIN grouped_sleep_data :
         \E i \in DOMAIN sleep_entries :
           /\ NightOf(sleep_entries[i].StartDate) = grouped_sleep_data[g].night
           /\ sleep_entries[i].EndDate <= (grouped_sleep_data[g].night + 1) * Day + 11 * 3600
           /\ InRange(sleep_entries[i])

\* A night whose only intervals were filtered out has no group, another has one.
C2_Witness ==
  /\ Grouped
  /\ Len(grouped_sleep_data) >= 1
  /\ \E i \in DOMAIN sleep_entries :
       \A g \in DOMAIN grouped_sleep_data :
         grouped_sleep_data[g].night # NightOf(sleep_entries[i].StartDate)

\* The file is one that process_file skips: unreadable, invalid JSON, without
\* the data/metrics structure, without metrics data, without entries, or with an
\* entry that lacks its source or value or has a quantity that is no finite number.
SkippedFile ==
  \/ file_kind # "ok"
  \/ sleep_data_list = <<>>
  \/ \E k \in DOMAIN sleep_data_list :
       \/ sleep_data_list[k].source = ""
       \/ sleep_data_list[k].value = ""
       \/ sleep_data_list[k].qty # "finite"

\* C8: a skipped file yields no night, no CSV and no rename; the rename happens
\* only after the summarizing loop has run through every group without raising.
C8_SkippedFilesLeaveNoTrace ==
  /\ SkippedFile =>
       /\ grouped_sleep_data = <<>> /\ outputs = {} /\ ~renamed
       /\ pc \notin {"group", "summarize", "phd"}
       /\ pc = "done" => status = "skipped"
  /\ status = "skipped" =>
       grouped_sleep_data = <<>> /\ outputs = {} /\ ~renamed
  /\ renamed =>
       /\ pc = "done" /\ status = "completed"
       /\ gi = Len(grouped_sleep_data) + 1
       /\ Cardinality(outputs) = Len(grouped_sleep_data)

\* A file with an entry that lacks its source has been skipped.
C8_Witness ==
  /\ pc = "done" /\ status = "skipped" /\ file_kind = "ok"
  /\ Len(sleep_data_list) >= 2
  /\ \E k \in DOMAIN sleep_data_list : sleep_data_list[k].source = ""
  /\ \E k \in DOMAIN sleep_data_list : sleep_data_list[k].source # ""

\* C10: no emitted night group whose intervals all have start <= end makes
\* process_health_data fail.
C10_NoGroupFails ==
  status = "raised" =>
    \/ phd_arg = <<>>
    \/ \E k \in DOMAIN phd_arg : phd_arg[k].StartDate > phd_arg[k].EndDate

====
